---- MODULE Spec2Model ----
(***************************************************************************)
(* Write-once cells of src/src/lib.rs.                                     *)
(*                                                                         *)
(*   unsync::OnceCell<T>   inner: UnsafeCell<Option<T>>                    *)
(*   sync::OnceCell<T>     inner: UnsafeCell<Option<T>>, once: Once        *)
(*                                                                         *)
(* One behaviour of the model follows ONE cell, of either variant, in one  *)
(* build configuration (debug assertions on or off).  The unsync cell is   *)
(* used by a single thread, so each of its calls is one step.  The sync    *)
(* cell is shared by NThreads threads; every access of a call to shared    *)
(* memory (the load of the Once's state, the compare-and-swap that enters  *)
(* the closure, the store into the slot, the store that completes the      *)
(* Once) is one step, so that calls interleave as threads do.              *)
(*                                                                         *)
(* Option<T> is a sequence: <<>> is None and <<v>> is Some(v).             *)
(***************************************************************************)
EXTENDS Naturals, Sequences, FiniteSets, TLC

\* ------------------------------------------------------------------ bounds
NThreads == 2        \* threads sharing the sync cell
NValues  == 2        \* values of T a caller may pass
MaxCalls == 3        \* calls made on the cell in one behaviour

Threads == 1 .. NThreads
Values  == 1 .. NValues

\* ------------------------------------------------------------------ values
None == << >>
Some(v) == << v >>
OptionT == {None} \cup { Some(v) : v \in Values }

\* What a call gave back: Result<(), T> of set, Option<&T> of get and get_mut.
NoRes     == [kind |-> "NoRes", val |-> None]
Ok        == [kind |-> "Ok",    val |-> None]
Err(v)    == [kind |-> "Err",   val |-> Some(v)]
Ref(o)    == [kind |-> "Ref",   val |-> o]
Panic     == [kind |-> "Panic", val |-> None]
Written   == [kind |-> "Written", val |-> None]

\* What a call saw of the cell at the point it looked at it.
NoObs == [state |-> "NoObs", slot |-> None]
Observed(st, sl) == [state |-> st, slot |-> sl]

VARIABLES
    variant,            \* "unsync" | "sync": which OnceCell this behaviour follows
    debug_assertions,   \* cfg!(debug_assertions) of the build
    inner,              \* the slot: Option<T>
    once,               \* std::sync::Once: "Incomplete" | "Running" | "Complete" | "Poisoned"
    pc,                 \* per thread: where it is inside its call
    op,                 \* per thread: the call it is in, or made last
    arg,                \* per thread: the argument of that call (Some(v) for set)
    value,              \* per thread: `value` of sync set, the parameter and then the
                        \* local Option that shadows it: Some(v) until the closure takes it
    res,                \* per thread: what its last call returned (NoRes while in flight)
    obs,                \* per thread: the barrier and slot as the call observed them
    seen,               \* per thread: okval when the call was invoked
    didset,             \* per thread: one of its set calls has returned
    setmade,            \* a set call has been made on the cell
    okval,              \* Some(v) once a set(v) has returned Ok
    ncalls,             \* calls invoked so far
    log,                \* the calls returned so far, in order, while none overlapped
    overlap,            \* some call was invoked while another was in flight
    ran                 \* the threads whose call_once ran the closure, in order

vars == << variant, debug_assertions, inner, once, pc, op, arg, value, res, obs,
           seen, didset, setmade, okval, ncalls, log, overlap, ran >>

Entry(o, a, r) == [op |-> o, arg |-> a, res |-> r]

\* ------------------------------------------------------------------ new()
\* unsync::OnceCell::new and sync::OnceCell::new: an empty slot, a Once not yet run.
Init ==
    /\ variant \in {"unsync", "sync"}
    /\ debug_assertions \in BOOLEAN
    /\ inner = None
    /\ once = "Incomplete"
    /\ pc = [t \in Threads |-> "idle"]
    /\ op = [t \in Threads |-> "none"]
    /\ arg = [t \in Threads |-> None]
    /\ value = [t \in Threads |-> None]
    /\ res = [t \in Threads |-> NoRes]
    /\ obs = [t \in Threads |-> NoObs]
    /\ seen = [t \in Threads |-> None]
    /\ didset = [t \in Threads |-> FALSE]
    /\ setmade = FALSE
    /\ okval = None
    /\ ncalls = 0
    /\ log = << >>
    /\ overlap = FALSE
    /\ ran = << >>

\* --------------------------------------------------------- bookkeeping
\* Another thread is inside a call when thread t invokes one.
Overlaps(t) == \E u \in Threads \ {t} : pc[u] # "idle"

\* The log keeps the calls in order only as long as none of them overlapped.
Logged(t, entry) ==
    IF overlap \/ Overlaps(t) THEN << >> ELSE Append(log, entry)

\* ------------------------------------------------- unsync::OnceCell<T>
\* The single execution context that owns the unsync cell.
Main == 1

\* A get that never sees the stored value.
UnsyncGetEmpty(slot) == None

\* unsync get: `unsafe { &*ptr }.as_ref()`, the slot's content as it is.
UnsyncGet(slot) == slot

\* unsync get_mut: `unsafe { &mut *ptr }.as_mut()`, the same content, exclusively.
UnsyncGetMut(slot) == slot

\* unsync set, the result: Err(value) if get().is_some(), else Ok(()).
UnsyncSetRes(slot, v) == IF UnsyncGet(slot) # None THEN Err(v) ELSE Ok

\* unsync set, the slot afterwards: mem::replace(r, Some(value)) past the check.
UnsyncSetSlot(slot, v) == IF UnsyncGet(slot) # None THEN slot ELSE Some(v)

\* unsync set, `debug_assert!(old.is_none())`: old is the replaced content.
UnsyncSetAssertFails(slot) ==
    debug_assertions /\ UnsyncGet(slot) = None /\ slot # None

\* One whole call of the unsync cell by Main: it returns r and leaves slot s.
UnsyncCall(o, a, r, s) ==
    /\ variant = "unsync"
    /\ pc[Main] = "idle"
    /\ ncalls < MaxCalls
    /\ ncalls' = ncalls + 1
    /\ inner' = s
    /\ op' = [op EXCEPT ![Main] = o]
    /\ arg' = [arg EXCEPT ![Main] = a]
    /\ res' = [res EXCEPT ![Main] = r]
    /\ obs' = [obs EXCEPT ![Main] = Observed(once, inner)]
    /\ seen' = [seen EXCEPT ![Main] = okval]
    /\ log' = Logged(Main, Entry(o, a, r))
    /\ pc' = [pc EXCEPT ![Main] = IF r = Panic THEN "panicked" ELSE "idle"]
    /\ didset' = [didset EXCEPT ![Main] = @ \/ (o = "set" /\ r # Panic)]
    /\ setmade' = (setmade \/ o = "set")
    /\ okval' = IF o = "set" /\ r = Ok THEN a ELSE okval
    /\ UNCHANGED << variant, debug_assertions, ran, once, value, overlap >>

UGet == UnsyncCall("get", None, Ref(UnsyncGet(inner)), inner)

\* A get_mut that takes the value out of the slot (`take()` for `as_mut()`).
UGetMutTaking == UnsyncCall("get_mut", None, Ref(inner), None)

UGetMut == UnsyncCall("get_mut", None, Ref(UnsyncGetMut(inner)), inner)

USet(v) ==
    UnsyncCall("set", Some(v),
               IF UnsyncSetAssertFails(inner) THEN Panic ELSE UnsyncSetRes(inner, v),
               UnsyncSetSlot(inner, v))

\* The caller assigns through the `&mut T` that get_mut handed out: the borrow
\* lasts until the next call on the cell.
UWrite(v) ==
    /\ op[Main] = "get_mut"
    /\ res[Main].kind = "Ref"
    /\ res[Main].val # None
    /\ UnsyncCall("write", Some(v), Written, Some(v))

\* --------------------------------------------------- sync::OnceCell<T>
\* Once::is_completed(): an acquire load of the Once's state.
IsCompleted(st) == st = "Complete"

\* sync get, once the barrier was seen completed: `(&*self.inner.get()).as_ref()`.
SyncGetRead(slot) == slot

\* A call of thread t is invoked: what every call records at that point.
Invoke(t, o, a) ==
    /\ variant = "sync"
    /\ pc[t] = "idle"
    /\ ncalls < MaxCalls
    /\ ncalls' = ncalls + 1
    /\ op' = [op EXCEPT ![t] = o]
    /\ arg' = [arg EXCEPT ![t] = a]
    /\ seen' = [seen EXCEPT ![t] = okval]
    /\ setmade' = (setmade \/ o = "set")
    /\ overlap' = (overlap \/ Overlaps(t))

\* A call of thread t returns r.
Return(t, r) ==
    /\ res' = [res EXCEPT ![t] = r]
    /\ pc' = [pc EXCEPT ![t] = IF r = Panic THEN "panicked" ELSE "idle"]
    /\ didset' = [didset EXCEPT ![t] = @ \/ (op'[t] = "set" /\ r # Panic)]
    /\ okval' = IF op'[t] = "set" /\ r = Ok THEN arg'[t] ELSE okval
    /\ log' = IF overlap' THEN << >> ELSE Append(log, Entry(op'[t], arg'[t], r))

\* A get that decides presence by the slot, without looking at the barrier.
GetCheckUnsynchronised(t) ==
    /\ Invoke(t, "get", None)
    /\ obs' = [obs EXCEPT ![t] = Observed(once, inner)]
    /\ Return(t, Ref(inner))
    /\ UNCHANGED << variant, debug_assertions, ran, inner, once, value >>

\* get, line 64: the call is made and loads the barrier's state.  Not completed:
\* it returns None at once.  Completed: it goes on to read the slot.
GetCheck(t) ==
    /\ Invoke(t, "get", None)
    /\ obs' = [obs EXCEPT ![t] = Observed(once, inner)]
    /\ IF IsCompleted(once)
       THEN /\ pc' = [pc EXCEPT ![t] = "get_read"]
            /\ res' = [res EXCEPT ![t] = NoRes]
            /\ log' = IF overlap' THEN << >> ELSE log
            /\ UNCHANGED << didset, okval >>
       ELSE Return(t, Ref(None))
    /\ UNCHANGED << variant, debug_assertions, ran, inner, once, value >>

\* A get that takes the value out of the slot (`take()` for `as_ref()`).
GetReadTaking(t) ==
    /\ pc[t] = "get_read"
    /\ inner' = None
    /\ UNCHANGED << variant, debug_assertions, ran, once, op, arg, value, obs,
                    seen, setmade, ncalls, overlap >>
    /\ Return(t, Ref(SyncGetRead(inner)))

\* get, line 65: the read of the slot.
GetRead(t) ==
    /\ pc[t] = "get_read"
    /\ UNCHANGED << variant, debug_assertions, ran, inner, once, op, arg, value, obs,
                    seen, setmade, ncalls, overlap >>
    /\ Return(t, Ref(SyncGetRead(inner)))

\* A set without the fast path: it goes to call_once whatever the barrier's state.
SetCheckNoFastPath(t, v) ==
    /\ Invoke(t, "set", Some(v))
    /\ value' = [value EXCEPT ![t] = Some(v)]
    /\ obs' = [obs EXCEPT ![t] = NoObs]
    /\ pc' = [pc EXCEPT ![t] = "call_once"]
    /\ res' = [res EXCEPT ![t] = NoRes]
    /\ log' = IF overlap' THEN << >> ELSE log
    /\ UNCHANGED << didset, okval >>
    /\ UNCHANGED << variant, debug_assertions, ran, inner, once >>

\* set, lines 72-76: the call is made and loads the barrier's state.  Completed:
\* Err(value) at once.  Otherwise the value moves into the local Option.
SetCheck(t, v) ==
    /\ Invoke(t, "set", Some(v))
    /\ value' = [value EXCEPT ![t] = Some(v)]
    /\ IF IsCompleted(once)
       THEN /\ obs' = [obs EXCEPT ![t] = Observed(once, inner)]
            /\ Return(t, Err(v))
       ELSE /\ obs' = [obs EXCEPT ![t] = NoObs]
            /\ pc' = [pc EXCEPT ![t] = "call_once"]
            /\ res' = [res EXCEPT ![t] = NoRes]
            /\ log' = IF overlap' THEN << >> ELSE log
            /\ UNCHANGED << didset, okval >>
    /\ UNCHANGED << variant, debug_assertions, ran, inner, once >>

\* Once::call_once may go on: it waits exactly while another thread runs the closure.
CallOnceReady == once # "Running"

\* A Once that does not exclude: a thread arriving while another runs the closure
\* runs it as well (the check-then-store of unsync set, shared between threads).
CallOnceRacy(t) ==
    /\ pc[t] = "call_once"
    /\ UNCHANGED << variant, debug_assertions, inner, op, arg, value, seen,
                    setmade, ncalls, overlap >>
    /\ IF once # "Complete"
       THEN /\ once' = "Running"
            /\ ran' = Append(ran, t)
            /\ pc' = [pc EXCEPT ![t] = "body"]
            /\ UNCHANGED << obs, res, didset, okval, log >>
       ELSE /\ obs' = [obs EXCEPT ![t] = Observed(once, inner)]
            /\ pc' = [pc EXCEPT ![t] = "match"]
            /\ UNCHANGED << once, ran, res, didset, okval, log >>

\* set, line 77, Once::call_once: Incomplete -> this thread becomes the one that
\* runs the closure (Running); Complete -> it returns without running it;
\* Poisoned -> it panics; Running -> it waits.
CallOnce(t) ==
    /\ pc[t] = "call_once"
    /\ CallOnceReady
    /\ UNCHANGED << variant, debug_assertions, inner, op, arg, value, seen,
                    setmade, ncalls, overlap >>
    /\ CASE once = "Incomplete" ->
              /\ once' = "Running"
              /\ ran' = Append(ran, t)
              /\ pc' = [pc EXCEPT ![t] = "body"]
              /\ UNCHANGED << obs, res, didset, okval, log >>
         [] once = "Complete" ->
              /\ obs' = [obs EXCEPT ![t] = Observed(once, inner)]
              /\ pc' = [pc EXCEPT ![t] = "match"]
              /\ UNCHANGED << once, ran, res, didset, okval, log >>
         [] OTHER ->
              /\ Return(t, Panic)
              /\ UNCHANGED << once, ran, obs >>

\* The closure, lines 78-79.  The store `mem::replace(inner, value.take())` is the
\* ARGUMENT of debug_assert!: it is evaluated only when debug assertions are on.
BodyStores == debug_assertions

\* A closure that takes the value and drops it instead of storing it.
BodySlotDropped(slot, val) == slot

\* The slot after the closure ran with local Option val.
BodySlot(slot, val) == IF BodyStores THEN val ELSE slot

\* The local Option after the closure ran: value.take() leaves None.
BodyValue(val) == IF BodyStores THEN None ELSE val

\* debug_assert!(... .is_none()) on the replaced content.
BodyAssertFails(slot) == BodyStores /\ slot # None

Body(t) ==
    /\ pc[t] = "body"
    /\ UNCHANGED << variant, debug_assertions, ran, op, arg, obs, seen, setmade, ncalls,
                    overlap >>
    /\ inner' = BodySlot(inner, value[t])
    /\ value' = [value EXCEPT ![t] = BodyValue(value[t])]
    /\ IF BodyAssertFails(inner)
       THEN /\ once' = "Poisoned"
            /\ Return(t, Panic)
       ELSE /\ pc' = [pc EXCEPT ![t] = "finish"]
            /\ UNCHANGED << once, res, didset, okval, log >>

\* A Once that never publishes the end of the closure.
FinishedNever == "Running"

\* The state the Once takes when the closure has returned.
Finished == "Complete"

\* Once::call_once, the closure has returned: the release store of the completed
\* state, which also wakes the waiting threads.
Finish(t) ==
    /\ pc[t] = "finish"
    /\ once' = Finished
    /\ pc' = [pc EXCEPT ![t] = "match"]
    /\ UNCHANGED << variant, debug_assertions, ran, inner, op, arg, value, res, obs,
                    seen, didset, setmade, okval, ncalls, log, overlap >>

\* A set that decides by the barrier's state instead of by its own value.
MatchResByBarrier(val, st) == IF IsCompleted(st) THEN Ok ELSE Panic

\* set, lines 82-88: None => Ok(()), Some(v) => Err(v), with
\* debug_assert!(self.once.is_completed()) on the failure side.
MatchRes(val, st) ==
    IF val = None THEN Ok
    ELSE IF debug_assertions /\ ~IsCompleted(st) THEN Panic
    ELSE Err(val[1])

Match(t) ==
    /\ pc[t] = "match"
    /\ UNCHANGED << variant, debug_assertions, ran, inner, once, op, arg, value, obs,
                    seen, setmade, ncalls, overlap >>
    /\ Return(t, MatchRes(value[t], once))

\* get of the sync cell when no other call is in flight: lines 64-68 in one piece.
SyncGetAlone == IF IsCompleted(once) THEN Ref(SyncGetRead(inner)) ELSE Ref(None)

\* ---------------------------------------------------------------- next
\* A step of thread t inside a call of the sync cell.
Step(t) == CallOnce(t) \/ Body(t) \/ Finish(t) \/ Match(t) \/ GetRead(t)

Next ==
    \/ UGet
    \/ UGetMut
    \/ \E v \in Values : USet(v)
    \/ \E v \in Values : UWrite(v)
    \/ \E t \in Threads : GetCheck(t)
    \/ \E t \in Threads, v \in Values : SetCheck(t, v)
    \/ \E t \in Threads : CallOnce(t)
    \/ \E t \in Threads : Body(t)
    \/ \E t \in Threads : Finish(t)
    \/ \E t \in Threads : Match(t)
    \/ \E t \in Threads : GetRead(t)

Spec == Init /\ [][Next]_vars

\* Threads are scheduled fairly: a thread inside a call that can take its next
\* step eventually takes it.  Whether a call is made at all is the caller's choice.
FairSpec == Spec /\ \A t \in Threads : WF_vars(Step(t))

\* ================================================================ claims
\* Thread t's last call was op o and has returned.
Returned(t, o) == op[t] = o /\ pc[t] = "idle" /\ res[t] # NoRes

\* No caller has assigned through a reference handed out by get_mut.
NoWrites == \A i \in DOMAIN log : log[i].op # "write"

\* Every thread has called set exactly once, with pairwise distinct values, and
\* every call has returned.
RaceDone ==
    /\ variant = "sync"
    /\ ncalls = NThreads
    /\ \A t \in Threads : Returned(t, "set")
    /\ \A t, u \in Threads : t # u => arg[t] # arg[u]

\* C1: when every thread calls set once on a fresh sync cell with pairwise
\* distinct values, exactly one call returns Ok, every other call returns Err
\* with its own value, and a get made afterwards yields the winner's value.
C1_RaceOneWinner ==
    RaceDone =>
        \E w \in Threads :
            /\ res[w] = Ok
            /\ \A u \in Threads \ {w} : res[u] = Err(arg[u][1])
            /\ SyncGetAlone = Ref(arg[w])

\* C2: in every reachable state of the sync cell, a completed barrier means an
\* occupied slot, and no call has observed the barrier completed with the slot empty.
C2_CompletedImpliesOccupied ==
    variant = "sync" =>
        /\ IsCompleted(once) => inner # None
        /\ \A t \in Threads : IsCompleted(obs[t].state) => obs[t].slot # None

\* The step is the caller's assignment through get_mut's reference.
WriteStep == ncalls' # ncalls /\ op'[Main] = "write"

\* C3: under get and set calls (both variants, any interleaving) an occupied
\* slot is never cleared and never holds a different value; so it goes from empty
\* to occupied at most once.
C3_WriteOnce == [][(inner # None /\ ~WriteStep) => inner' = inner]_vars

\* C3's case: an occupied sync slot on which a contended set was turned down.
C3_Witness ==
    /\ variant = "sync"
    /\ inner # None
    /\ overlap
    /\ \E t \in Threads : Returned(t, "set") /\ res[t].kind = "Err"

\* C4: a set(v) of the sync cell returns Ok exactly when its own value was taken
\* by the closure and is the value in the slot; otherwise it returns Err(v).
C4_OkIffOwnValueStored ==
    \A t \in Threads :
        (variant = "sync" /\ Returned(t, "set")) =>
            /\ res[t] = Ok <=> (value[t] = None /\ inner = arg[t])
            /\ res[t] # Ok => res[t] = Err(arg[t][1])

\* C4's case: two overlapping set calls, one returned Ok and the other Err while
\* the barrier was completed by the first.
C4_Witness ==
    /\ variant = "sync"
    /\ overlap
    /\ ncalls = 2
    /\ \E t, u \in Threads :
          /\ t # u
          /\ Returned(t, "set") /\ res[t] = Ok
          /\ Returned(u, "set") /\ res[u].kind = "Err"
          /\ arg[u] = inner

\* C5: (both variants) as long as no set has been made every get returns None,
\* and a get made after a set(v) has returned Ok returns v.
C5_FirstReadFirstWrite ==
    \A t \in Threads :
        Returned(t, "get") =>
            /\ ~setmade => res[t] = Ref(None)
            /\ (seen[t] # None /\ NoWrites) => res[t] = Ref(seen[t])

\* C5's case: a get of the sync cell, made after a set had returned Ok, has
\* returned a value.
C5_Witness ==
    /\ variant = "sync"
    /\ \E t \in Threads :
          /\ Returned(t, "get")
          /\ seen[t] # None
          /\ res[t].val # None

\* The first i calls of the log hold no assignment through get_mut.
NoWritesBefore(i) == \A j \in 1 .. i : log[j].op # "write"

\* C6: (both variants) when the first two calls on a fresh cell are set(v1) and
\* then set(v2), one after the other, the first returns Ok, the second returns
\* Err(v2), and every get afterwards returns v1.
C6_SecondWriteRejected ==
    (Len(log) >= 2 /\ log[1].op = "set" /\ log[2].op = "set") =>
        /\ log[1].res = Ok
        /\ log[2].res = Err(log[2].arg[1])
        /\ \A i \in 3 .. Len(log) :
              (log[i].op = "get" /\ NoWritesBefore(i)) => log[i].res = Ref(log[1].arg)

\* C7: (both variants) a set(v) that fails returns exactly v, it observed the
\* cell as initialized (for the sync cell: the barrier completed), and the slot
\* and the barrier are as it observed them.
C7_FailedSetLeavesCell ==
    \A t \in Threads :
        (Returned(t, "set") /\ res[t].kind = "Err") =>
            /\ res[t].val = arg[t]
            /\ obs[t].slot # None
            /\ variant = "sync" => IsCompleted(obs[t].state)
            /\ inner = obs[t].slot
            /\ once = obs[t].state

\* C8: a get of the sync cell made by a thread after one of its own set calls
\* has returned is never empty and is the value in the slot; and whenever a set
\* has returned Err the barrier is completed.
C8_ReadAfterOwnSet ==
    \A t \in Threads :
        variant = "sync" =>
            /\ (Returned(t, "get") /\ didset[t]) =>
                  (res[t].val # None /\ res[t].val = inner)
            /\ (Returned(t, "set") /\ res[t].kind = "Err") => IsCompleted(once)

\* C9: a get of the sync cell returns the stored value if the barrier was
\* completed when the call loaded its state, and None otherwise (so None while
\* a set is in flight).
C9_GetFollowsBarrier ==
    \A t \in Threads :
        (variant = "sync" /\ Returned(t, "get")) =>
            IF IsCompleted(obs[t].state)
            THEN res[t].val # None /\ res[t].val = obs[t].slot
            ELSE res[t] = Ref(None)

\* Thread t is inside a set call.
InSet(t) == op[t] = "set" /\ pc[t] \notin {"idle", "panicked"}

\* Thread t is inside a call and cannot take its next step.
Waits(t) == pc[t] \notin {"idle", "panicked"} /\ ~ENABLED Step(t)

\* C10: under fair scheduling every set call of the sync cell returns; a call
\* waits only inside set's call_once and only while another thread is inside
\* the closure; a get never waits.
C10_SetReturns ==
    /\ \A t \in Threads : InSet(t) ~> (pc[t] = "idle")
    /\ [](\A t \in Threads :
            Waits(t) =>
                /\ op[t] = "set"
                /\ pc[t] = "call_once"
                /\ \E u \in Threads \ {t} : pc[u] \in {"body", "finish"})

\* C10's case: a set call waits in call_once while another thread's closure runs.
C10_Witness ==
    \E t, u \in Threads :
        /\ t # u
        /\ Waits(t)
        /\ pc[t] = "call_once"
        /\ pc[u] = "body"

\* C11: a set call of the sync cell that starts when the barrier is completed
\* returns Err with its own value in that very step: it never reaches call_once,
\* never runs the closure, and leaves slot and barrier as they are.
C11_FastPathRejects ==
    [][\A t \in Threads, v \in Values :
          (SetCheck(t, v) /\ IsCompleted(once)) =>
              /\ pc'[t] = "idle"
              /\ res'[t] = Err(v)
              /\ ran' = ran
              /\ inner' = inner
              /\ once' = once]_vars

\* C11's case: a set made after an earlier set had returned, with no overlap,
\* was turned down.
C11_Witness ==
    /\ variant = "sync"
    /\ Len(log) >= 2
    /\ log[1].op = "set"
    /\ log[2].op = "set"
    /\ log[2].res.kind = "Err"
    /\ Len(ran) = 1

\* C12: in every state the unsync cell reaches by get, get_mut (and assignments
\* through its reference) and set, no call has panicked: the assertion on the
\* replaced content holds, and a set returns Ok or Err with its own value.
C12_UnsyncSetNeverPanics ==
    variant = "unsync" =>
        /\ pc[Main] # "panicked"
        /\ res[Main] # Panic
        /\ \A i \in DOMAIN log :
              log[i].op = "set" => log[i].res \in {Ok, Err(log[i].arg[1])}

\* C12's case: a debug build in which a set followed a get_mut on an occupied
\* cell and was turned down.
C12_Witness ==
    /\ variant = "unsync"
    /\ debug_assertions
    /\ Len(log) = 3
    /\ log[1].op = "set"
    /\ log[2].op = "get_mut"
    /\ log[3].op = "set"
    /\ log[3].res.kind = "Err"

\* Thread t's call_once ran the closure.
Ran(t) == \E i \in DOMAIN ran : ran[i] = t

\* C13: whatever the build (debug assertions on or off), the closure of set
\* stores the winner's value into the slot and takes it from the local Option,
\* so the call that ran the closure returns Ok.
C13_BuildIndependent ==
    \A t \in Threads :
        (variant = "sync" /\ Ran(t) /\ pc[t] \in {"finish", "match"}) =>
            /\ inner = arg[t]
            /\ value[t] = None
            /\ MatchRes(value[t], once) = Ok

\* C14: over any interleaving of set calls on the sync cell the closure is run
\* at most once, at most one thread is inside call_once's critical part at any
\* time, the slot is empty when the closure is about to store, and no assertion
\* has failed.
C14_BodyRunsOnce ==
    variant = "sync" =>
        /\ Len(ran) <= 1
        /\ Cardinality({t \in Threads : pc[t] \in {"body", "finish"}}) <= 1
        /\ \A t \in Threads : pc[t] = "body" => (inner = None /\ ~BodyAssertFails(inner))
        /\ \A t \in Threads : pc[t] # "panicked"

\* C14's case: the closure has run once and a second set call, which contended
\* for the barrier, came out of call_once without running it.
C14_Witness ==
    /\ variant = "sync"
    /\ Len(ran) = 1
    /\ \E u \in Threads :
          /\ ~Ran(u)
          /\ pc[u] = "match"
          /\ IsCompleted(obs[u].state)

\* C15: the barrier moves only Incomplete (Empty) -> Running (Initializing), when
\* a set call enters call_once, and Running -> Complete (Completed), when the
\* winner's closure has stored the winner's value; nothing leaves Complete.
C15_StateMachine ==
    [][once' # once =>
          \/ /\ once = "Incomplete"
             /\ once' = "Running"
             /\ \E t \in Threads :
                   op[t] = "set" /\ pc[t] = "call_once" /\ pc'[t] = "body"
          \/ /\ once = "Running"
             /\ once' = "Complete"
             /\ \E t \in Threads : pc[t] = "finish" /\ inner = arg[t]]_vars

\* C16: (both variants) a step of a get call leaves the slot and the barrier as
\* they are; so, calls made one after the other, once a get has returned a value
\* every later get returns the same value and every later set is turned down.
C16_GetReadOnly ==
    /\ [][\A t \in Threads :
            (UGet \/ GetCheck(t) \/ GetRead(t)) =>
                (inner' = inner /\ once' = once /\ ran' = ran)]_vars
    /\ [](\A i, j \in DOMAIN log :
            (i < j /\ log[i].op = "get" /\ log[i].res.val # None /\ NoWritesBefore(j)) =>
                /\ log[j].op = "get" => log[j].res = log[i].res
                /\ log[j].op = "set" => log[j].res.kind = "Err")

\* C16's case: on the sync cell a set returned Ok and two gets after it both
\* returned the value.
C16_Witness ==
    /\ variant = "sync"
    /\ Len(log) = 3
    /\ log[1].op = "set" /\ log[1].res = Ok
    /\ log[2].op = "get" /\ log[2].res.val # None
    /\ log[3].op = "get" /\ log[3].res.val # None

\* The unsync cell run on the first n calls of l (get and set calls), from new():
\* the slot it holds afterwards.
RECURSIVE UnsyncSlotAfter(_, _)
UnsyncSlotAfter(l, n) ==
    IF n = 0 THEN None
    ELSE IF l[n].op = "set" THEN UnsyncSetSlot(UnsyncSlotAfter(l, n - 1), l[n].arg[1])
    ELSE UnsyncSlotAfter(l, n - 1)

\* ... and what its n-th call returns.
UnsyncResAt(l, n) ==
    IF l[n].op = "set" THEN UnsyncSetRes(UnsyncSlotAfter(l, n - 1), l[n].arg[1])
    ELSE Ref(UnsyncGet(UnsyncSlotAfter(l, n - 1)))

\* C17: when the calls on the sync cell do not overlap, each call returns what
\* the unsync cell returns for the same sequence of calls, and after each call
\* the sync cell holds the value the unsync cell holds.
C17_SyncRefinesUnsync ==
    (variant = "sync" /\ ~overlap) =>
        /\ \A i \in DOMAIN log : log[i].res = UnsyncResAt(log, i)
        /\ (\A t \in Threads : pc[t] = "idle") => inner = UnsyncSlotAfter(log, Len(log))

\* C18: on the sync cell, a get invoked after a set(v) has returned Ok returns
\* v, a set invoked after it returns Err with its own value, and a get returns
\* a value only when the barrier is completed over a slot holding that value.
C18_RealTimeOrder ==
    \A t \in Threads :
        variant = "sync" =>
            /\ (Returned(t, "get") /\ seen[t] # None) => res[t] = Ref(seen[t])
            /\ (Returned(t, "set") /\ seen[t] # None) => res[t] = Err(arg[t][1])
            /\ (Returned(t, "get") /\ res[t].val # None) =>
                  (IsCompleted(once) /\ inner = res[t].val)

\* C18's case: after a set had returned Ok, one thread's get returned the value
\* and another thread's set was turned down.
C18_Witness ==
    /\ variant = "sync"
    /\ \E t, u \in Threads :
          /\ Returned(t, "get") /\ seen[t] # None /\ res[t].val # None
          /\ Returned(u, "set") /\ seen[u] # None /\ res[u].kind = "Err"

\* C19: on the unsync cell get_mut is empty exactly when get is, and otherwise
\* gives the same value; a get_mut call leaves occupancy as it is: a get next to
\* it returns the same, and a set right after it returns Ok exactly when get_mut
\* returned empty.
C19_GetMutKeepsOccupancy ==
    variant = "unsync" =>
        /\ UnsyncGetMut(inner) = UnsyncGet(inner)
        /\ \A i \in DOMAIN log :
              log[i].op = "get_mut" =>
                  /\ (i > 1 /\ log[i - 1].op = "get") => log[i].res = log[i - 1].res
                  /\ (i < Len(log) /\ log[i + 1].op = "get") => log[i + 1].res = log[i].res
                  /\ (i < Len(log) /\ log[i + 1].op = "set") =>
                        (log[i + 1].res = Ok <=> log[i].res.val = None)
                  /\ (i < Len(log) /\ log[i + 1].op = "write") =>
                        (log[i].res.val # None /\ inner # None)

\* C19's case: a get_mut on an occupied unsync cell, and the set after it was
\* turned down.
C19_Witness ==
    /\ variant = "unsync"
    /\ Len(log) = 3
    /\ log[1].op = "set"
    /\ log[2].op = "get_mut" /\ log[2].res.val # None
    /\ log[3].op = "set" /\ log[3].res.kind = "Err"

====
